---- MODULE Spec2Model ----
(***************************************************************************)
(* Model of the C++ application of the parallel filtering system:          *)
(* main (orchestrator), opencl_thread with the compute_reliability kernel, *)
(* sender_thread, receiver_thread, load_data and write_output.             *)
(*                                                                         *)
(* A float32 is represented by its IEEE-754 bit pattern read as an int32;  *)
(* for non-negative floats the order of the patterns is the numeric order. *)
(* A frame is the sequence of its bytes.                                   *)
(***************************************************************************)
EXTENDS Integers, Sequences, FiniteSets, TLC

(* ------------------------------ bounds --------------------------------- *)
\* longest "servers" array of an input file
MaxRecords == 2
\* number of frames the external worker pool pushes to the receiver
MaxFrames == 2
\* the longest input list handed to write_output on its own
MaxReportRecords == 3
\* the longest input list handed to the kernel on its own
MaxKernelRecords == 3

(* ------------------------- program constants --------------------------- *)
MSG_SIZE == 12
MSG_RESULT_SIZE == 8
ID_SIZE == 4
FLOAT_SIZE == 4
UPTIME_SIZE == 4
STOP_SIGNAL == 255
LOCAL_SIZE == 256
\* THRESHOLD 50.0f
THRESHOLD == 1112014848

\* 0.0f, the initial value of both scores
F_0 == 0

(* --------------------------- byte encoding ----------------------------- *)
\* the low 31 bits of a 32-bit two's complement value
Low31(v) == IF v >= 0 THEN v ELSE (v + 2147483647) + 1

\* memcpy of a 4-byte int or float into a buffer (native order, little endian)
Bytes4(v) ==
    LET u == Low31(v)
    IN  << u % 256,
           (u \div 256) % 256,
           (u \div 65536) % 256,
           (u \div 16777216) + (IF v < 0 THEN 128 ELSE 0) >>

\* memcpy of 4 bytes of a buffer, starting at offset off, into an int or float
Value4(buf, off) ==
    LET u == buf[off + 1] + 256 * buf[off + 2] + 65536 * buf[off + 3]
             + 16777216 * (buf[off + 4] % 128)
    IN  IF buf[off + 4] >= 128 THEN (u - 2147483647) - 1 ELSE u

\* reliability >= THRESHOLD on floats (false for negative values and NaN)
FloatGE_Strict(a, b) == a >= 0 /\ a <= 2139095040 /\ a > b

\* (2139095040 is +infinity, every larger pattern is a NaN)
FloatGE(a, b) == a >= 0 /\ a <= 2139095040 /\ a >= b

(* ------------------------------ inputs --------------------------------- *)
\* loads 0.25f = 1048576000 and 0.5f = 1056964608
ServerA == [id |-> 1, location |-> "Vilnius", uptime |-> 0, load |-> 1048576000]
ServerB == [id |-> 2, location |-> "Kaunas", uptime |-> 1000, load |-> 1056964608]
\* a second entry with the id of ServerB
ServerC == [id |-> 2, location |-> "Riga", uptime |-> 1000, load |-> 1048576000]
InputRecords == {ServerA, ServerB, ServerC}

\* the lists of at most n entries of S, no entry taken twice
RECURSIVE SeqsUpTo(_, _)
SeqsUpTo(S, n) ==
    IF n = 0 THEN {<< >>}
    ELSE LET shorter == SeqsUpTo(S, n - 1)
             fresh(s) == {y \in S : \A k \in DOMAIN s : s[k] # y}
         IN  shorter \cup UNION {{Append(s, x) : x \in fresh(s)} : s \in shorter}

InputLists == SeqsUpTo(InputRecords, MaxRecords)

\* frames the external worker pool may push: the sentinel, a result for id 1
\* with stability 25.0f, and a 1-byte frame that is not the sentinel
ResultFrame(id, stability) == Bytes4(id) \o Bytes4(stability)
StopFrame == << STOP_SIGNAL >>
PoolFrames ==
    { StopFrame,
      ResultFrame(1, 1103626240),
      << 0 >> }

(* ------------------------------ kernel --------------------------------- *)
\* The value of "reliability" after the ITERATIONS loop and the scaling by
\* 100.0f, per (uptime, load): a finite table standing for the float32 loop,
\* which is a deterministic function of these two inputs.  The table holds
\* exactly 50.0f, the largest float below 50.0f, and 75.0f.
KernelReliability(uptime, load) ==
    CASE uptime = 0 /\ load = 1048576000 -> THRESHOLD
      [] uptime = 1000 /\ load = 1056964608 -> THRESHOLD - 1
      [] uptime = 1000 /\ load = 1048576000 -> 1117126656
      [] OTHER -> F_0

\* size_t global_size = ((count + local_size - 1) / local_size) * local_size
GlobalSize_RoundDown(count) == (count \div LOCAL_SIZE) * LOCAL_SIZE

GlobalSize(count) == ((count + LOCAL_SIZE - 1) \div LOCAL_SIZE) * LOCAL_SIZE

(* ------------------------------- state --------------------------------- *)
VARIABLES
    mainpc,          \* position of main
    load_ok,         \* value returned by load_data, FALSE before the call
    exitStatus,      \* value returned by main, -1 while it runs
    servers,         \* std::vector<ServerData> servers
    results,         \* std::map<int, ServerResult> results
    results_mutex,   \* owner of std::mutex results_mutex, or "free"
    report,          \* contents of the output file, NoReport while not written
    openclpc,        \* position of opencl_thread
    laneIdx,         \* idx of every kernel lane that enters the loop
    laneOut,         \* out_idx of a lane between atomic_inc and its stores, else -1
    d_counter,       \* device buffer: the atomic counter
    d_out_ids,       \* device buffer out_ids: written slots only
    d_reliability,   \* device buffer out_reliability: written slots only
    result_count,    \* host copy of the counter
    h_out_ids,       \* host copy of out_ids
    h_reliability,   \* host copy of out_reliability
    applyI,          \* the i of the update loop of opencl_thread
    senderpc,        \* position of sender_thread
    sendIdx,         \* number of servers the send loop has passed
    outWire,         \* frames sent on the PUSH socket, in order
    receiverpc,      \* position of receiver_thread
    msg,             \* the frame the receiver is handling
    count,           \* the receiver's count
    inbox,           \* frames pushed by the pool and not yet received
    received,        \* frames returned by sock.recv, in order
    poolSent,        \* number of frames the pool has pushed
    writes           \* per id, the number of updates applied by each writer

mainVars == << mainpc, load_ok, exitStatus, servers, report >>
kernelVars == << laneIdx, laneOut, d_counter, d_out_ids, d_reliability >>
hostVars == << result_count, h_out_ids, h_reliability, applyI >>
openclVars == << openclpc, kernelVars, hostVars >>
senderVars == << senderpc, sendIdx, outWire >>
receiverVars == << receiverpc, msg, count, received >>
poolVars == << inbox, poolSent >>
storeVars == << results, results_mutex, writes >>
vars == << mainVars, openclVars, senderVars, receiverVars, poolVars, storeVars >>

NoReport == [written |-> FALSE]
NoMsg == << >>

\* a worker has returned from its thread function
Returned(pc) == pc \in {"done", "failed"}

\* ~jthread: join() returns once the thread function has returned
Joinable_Detached(pc) == TRUE

Joinable(pc) == pc \in {"done", "failed"}

Init ==
    /\ mainpc = "idle"
    /\ load_ok = FALSE
    /\ exitStatus = -1
    /\ servers = << >>
    /\ results = << >>
    /\ results_mutex = "free"
    /\ report = NoReport
    /\ openclpc = "notstarted"
    /\ laneIdx = << >>
    /\ laneOut = << >>
    /\ d_counter = 0
    /\ d_out_ids = << >>
    /\ d_reliability = << >>
    /\ result_count = 0
    /\ h_out_ids = << >>
    /\ h_reliability = << >>
    /\ applyI = 0
    /\ senderpc = "notstarted"
    /\ sendIdx = 0
    /\ outWire = << >>
    /\ receiverpc = "notstarted"
    /\ msg = NoMsg
    /\ count = 0
    /\ inbox = << >>
    /\ received = << >>
    /\ poolSent = 0
    /\ writes = << >>

(* ------------------------------ load_data ------------------------------- *)
\* the ServerResult stored for one parsed entry
NewResult(data) ==
    [ id |-> data.id, location |-> data.location, uptime |-> data.uptime,
      load |-> data.load, reliability |-> F_0, stability |-> F_0,
      has_opencl_result |-> FALSE, has_python_result |-> FALSE ]

\* (*results)[data.id] = ServerResult{...} for the entries of recs in order:
\* a later entry with the same id replaces the earlier one
RECURSIVE LoadResults(_)
LoadResults(recs) ==
    IF recs = << >> THEN << >>
    ELSE LET n == Len(recs)
             before == LoadResults(SubSeq(recs, 1, n - 1))
             data == recs[n]
         IN  [ id \in (DOMAIN before) \cup {data.id} |->
                 IF id = data.id THEN NewResult(data) ELSE before[id] ]

\* load_data on a file: "missing" cannot be opened, "malformed" throws a
\* JSON exception after parsed entries were stored, "ok" holds recs.
\* The result is << return value, servers, results >>.
load_data(kind, recs, parsed) ==
    CASE kind = "missing" -> << FALSE, << >>, << >> >>
      [] kind = "malformed" ->
            << FALSE, SubSeq(recs, 1, parsed), LoadResults(SubSeq(recs, 1, parsed)) >>
      [] OTHER -> << TRUE, recs, LoadResults(recs) >>

(* --------------------------------- main --------------------------------- *)
\* main, lines 56 and 59: the two tests that make main return 1
LoadHalts_NoEmptyTest(ok, srv) == ~ok

LoadHalts(ok, srv) == ~ok \/ srv = << >>

\* main, lines 55-62: load the data, return 1 on failure or on no data
MainLoad ==
    /\ mainpc = "idle"
    /\ \E kind \in {"missing", "malformed", "ok"}, recs \in InputLists :
         \E parsed \in 0..Len(recs) :
            LET r == load_data(kind, recs, parsed)
            IN  /\ kind # "malformed" => parsed = Len(recs)
                /\ load_ok' = r[1]
                /\ servers' = r[2]
                /\ results' = r[3]
                /\ writes' = [ id \in DOMAIN r[3] |-> [opencl |-> 0, receiver |-> 0] ]
                /\ IF LoadHalts(r[1], r[2])
                     THEN mainpc' = "exit" /\ exitStatus' = 1
                     ELSE mainpc' = "start_opencl" /\ exitStatus' = exitStatus
    /\ UNCHANGED << report, results_mutex, openclVars, senderVars, receiverVars, poolVars >>

\* std::jthread t_opencl(opencl_thread, ...)
StartOpencl ==
    /\ mainpc = "start_opencl"
    /\ mainpc' = "start_sender"
    /\ openclpc' = "init"
    /\ UNCHANGED << load_ok, exitStatus, servers, report, kernelVars, hostVars, senderVars,
                    receiverVars, poolVars, storeVars >>

\* std::jthread t_sender(sender_thread, ...)
StartSender ==
    /\ mainpc = "start_sender"
    /\ mainpc' = "start_receiver"
    /\ senderpc' = "connect"
    /\ UNCHANGED << load_ok, exitStatus, servers, report, openclVars, sendIdx, outWire,
                    receiverVars, poolVars, storeVars >>

\* std::jthread t_receiver(receiver_thread, ...)
StartReceiver ==
    /\ mainpc = "start_receiver"
    /\ mainpc' = "join_receiver"
    /\ receiverpc' = "bind"
    /\ UNCHANGED << load_ok, exitStatus, servers, report, openclVars, senderVars,
                    msg, count, received, poolVars, storeVars >>

\* end of the block: the jthread destructors join in reverse order of
\* construction, each waiting until its thread function has returned
JoinReceiver ==
    /\ mainpc = "join_receiver"
    /\ Joinable(receiverpc)
    /\ mainpc' = "join_sender"
    /\ UNCHANGED << load_ok, exitStatus, servers, report, openclVars, senderVars,
                    receiverVars, poolVars, storeVars >>

JoinSender ==
    /\ mainpc = "join_sender"
    /\ Joinable(senderpc)
    /\ mainpc' = "join_opencl"
    /\ UNCHANGED << load_ok, exitStatus, servers, report, openclVars, senderVars,
                    receiverVars, poolVars, storeVars >>

JoinOpencl ==
    /\ mainpc = "join_opencl"
    /\ Joinable(openclpc)
    /\ mainpc' = "joined"
    /\ UNCHANGED << load_ok, exitStatus, servers, report, openclVars, senderVars,
                    receiverVars, poolVars, storeVars >>

(* ----------------------------- write_output ---------------------------- *)
\* the keys of a std::map in iteration order (ascending)
RECURSIVE SortedKeys(_)
SortedKeys(S) ==
    IF S = {} THEN << >>
    ELSE LET m == CHOOSE x \in S : \A y \in S : x <= y
         IN  << m >> \o SortedKeys(S \ {m})

\* the rows of the filtered section: the records with both flags, in map order
RECURSIVE FilteredRows_Either(_, _)
FilteredRows_Either(res, keys) ==
    IF keys = << >> THEN << >>
    ELSE LET r == res[Head(keys)]
             rest == FilteredRows_Either(res, Tail(keys))
         IN  IF r.has_opencl_result \/ r.has_python_result
               THEN << [id |-> r.id, location |-> r.location, uptime |-> r.uptime,
                        load |-> r.load, reliability |-> r.reliability,
                        stability |-> r.stability] >> \o rest
               ELSE rest

RECURSIVE FilteredRows(_, _)
FilteredRows(res, keys) ==
    IF keys = << >> THEN << >>
    ELSE LET r == res[Head(keys)]
             rest == FilteredRows(res, Tail(keys))
         IN  IF r.has_opencl_result /\ r.has_python_result
               THEN << [id |-> r.id, location |-> r.location, uptime |-> r.uptime,
                        load |-> r.load, reliability |-> r.reliability,
                        stability |-> r.stability] >> \o rest
               ELSE rest

\* lines 80-94: opencl_passed, python_passed and both_passed
PassCounts_ElseIf(res) ==
    LET both == {id \in DOMAIN res :
                   res[id].has_opencl_result /\ res[id].has_python_result}
    IN  [ opencl_passed |->
            Cardinality({id \in DOMAIN res : res[id].has_opencl_result} \ both),
          python_passed |->
            Cardinality({id \in DOMAIN res : res[id].has_python_result} \ both),
          both_passed |-> Cardinality(both) ]

PassCounts(res) ==
    [ opencl_passed |-> Cardinality({id \in DOMAIN res : res[id].has_opencl_result}),
      python_passed |-> Cardinality({id \in DOMAIN res : res[id].has_python_result}),
      both_passed |-> Cardinality({id \in DOMAIN res :
                        res[id].has_opencl_result /\ res[id].has_python_result}) ]

\* write_output: the statistics line, the initial data and the filtered rows
write_output(srv, res) ==
    [ written |-> TRUE,
      Total |-> Len(srv),
      Filter1 |-> PassCounts(res).opencl_passed,
      Filter2 |-> PassCounts(res).python_passed,
      Both |-> PassCounts(res).both_passed,
      initial |-> [k \in DOMAIN srv |->
                     [id |-> srv[k].id, location |-> srv[k].location,
                      uptime |-> srv[k].uptime, load |-> srv[k].load]],
      rows |-> FilteredRows(res, SortedKeys(DOMAIN res)) ]

\* main, line 81: write_output(servers, results); the output file may fail
\* to open, and then nothing is written
WriteOutput ==
    /\ mainpc = "joined"
    /\ mainpc' = "reported"
    /\ \E opened \in BOOLEAN :
         report' = IF opened THEN write_output(servers, results) ELSE NoReport
    /\ UNCHANGED << load_ok, exitStatus, servers, openclVars, senderVars,
                    receiverVars, poolVars, storeVars >>

\* main, line 86: return 0
MainReturn ==
    /\ mainpc = "reported"
    /\ mainpc' = "exit"
    /\ exitStatus' = 0
    /\ UNCHANGED << load_ok, servers, report, openclVars, senderVars, receiverVars,
                    poolVars, storeVars >>

(* ----------------------------- opencl_thread ---------------------------- *)
\* the lanes whose first idx is below count; every other lane skips the loop
ActiveLanes(cnt) ==
    LET g == GlobalSize(cnt)
    IN  0 .. ((IF cnt < g THEN cnt ELSE g) - 1)

\* lines 73-129: device, context, queue, kernel source, build, buffers, the
\* counter set to 0 and the kernel arguments.  A missing platform or device
\* and an unreadable kernel file throw; a build error returns.
OpenclInit ==
    /\ openclpc = "init"
    /\ \E outcome \in {"ok", "no_device", "no_source", "build_error"} :
         IF outcome = "ok"
           THEN /\ openclpc' = "kernel"
                /\ laneIdx' = [g \in ActiveLanes(Len(servers)) |-> g]
                /\ laneOut' = [g \in ActiveLanes(Len(servers)) |-> -1]
                /\ d_counter' = 0
                /\ d_out_ids' = << >>
                /\ d_reliability' = << >>
           ELSE /\ openclpc' = "failed"
                /\ UNCHANGED kernelVars
    /\ UNCHANGED << mainVars, hostVars, senderVars, receiverVars, poolVars, storeVars >>

\* atomic_inc(counter): the old value is returned, the counter is incremented
atomic_inc_NoIncrement(c) == << c, c >>

atomic_inc(c) == << c, c + 1 >>

\* compute_reliability, one iteration of the grid-striding loop of lane gid,
\* taken as one step: the stores go to the slot that atomic_inc gave to this
\* lane alone, and the host reads the buffers only after queue.finish()
KernelLane(gid) ==
    /\ openclpc = "kernel"
    /\ gid \in DOMAIN laneIdx
    /\ laneIdx[gid] < Len(servers)
    /\ laneOut[gid] = -1
    /\ LET idx == laneIdx[gid]
           reliability == KernelReliability(servers[idx + 1].uptime,
                                            servers[idx + 1].load)
           inc == atomic_inc(d_counter)
           out_idx == inc[1]
       IN  /\ IF FloatGE(reliability, THRESHOLD)
                THEN /\ d_counter' = inc[2]
                     /\ d_reliability' =
                          [k \in (DOMAIN d_reliability) \cup {out_idx} |->
                             IF k = out_idx THEN reliability ELSE d_reliability[k]]
                     /\ d_out_ids' =
                          [k \in (DOMAIN d_out_ids) \cup {out_idx} |->
                             IF k = out_idx THEN servers[idx + 1].id ELSE d_out_ids[k]]
                ELSE UNCHANGED << d_counter, d_reliability, d_out_ids >>
           /\ laneIdx' = [laneIdx EXCEPT ![gid] = idx + GlobalSize(Len(servers))]
    /\ UNCHANGED << mainVars, openclpc, laneOut, hostVars, senderVars, receiverVars,
                    poolVars, storeVars >>

\* the same iteration in the steps in which the lanes interleave.
\* Lines 19-32: the reliability, the threshold test and the atomic_inc; a
\* record below the threshold ends the iteration
KernelInc(gid) ==
    /\ openclpc = "kernel"
    /\ gid \in DOMAIN laneIdx
    /\ laneIdx[gid] < Len(servers)
    /\ laneOut[gid] = -1
    /\ LET idx == laneIdx[gid]
           reliability == KernelReliability(servers[idx + 1].uptime,
                                            servers[idx + 1].load)
           inc == atomic_inc(d_counter)
       IN  IF FloatGE(reliability, THRESHOLD)
             THEN /\ d_counter' = inc[2]
                  /\ laneOut' = [laneOut EXCEPT ![gid] = inc[1]]
                  /\ UNCHANGED laneIdx
             ELSE /\ laneIdx' = [laneIdx EXCEPT ![gid] = idx + GlobalSize(Len(servers))]
                  /\ UNCHANGED << d_counter, laneOut >>
    /\ UNCHANGED << mainVars, openclpc, d_reliability, d_out_ids, hostVars,
                    senderVars, receiverVars, poolVars, storeVars >>

\* lines 33-34: the two stores to slot out_idx, then idx += gsize
KernelStore(gid) ==
    /\ openclpc = "kernel"
    /\ gid \in DOMAIN laneIdx
    /\ laneOut[gid] # -1
    /\ LET idx == laneIdx[gid]
           out_idx == laneOut[gid]
           reliability == KernelReliability(servers[idx + 1].uptime,
                                            servers[idx + 1].load)
       IN  /\ d_reliability' =
                [k \in (DOMAIN d_reliability) \cup {out_idx} |->
                   IF k = out_idx THEN reliability ELSE d_reliability[k]]
           /\ d_out_ids' =
                [k \in (DOMAIN d_out_ids) \cup {out_idx} |->
                   IF k = out_idx THEN servers[idx + 1].id ELSE d_out_ids[k]]
           /\ laneIdx' = [laneIdx EXCEPT ![gid] = idx + GlobalSize(Len(servers))]
           /\ laneOut' = [laneOut EXCEPT ![gid] = -1]
    /\ UNCHANGED << mainVars, openclpc, d_counter, hostVars, senderVars, receiverVars,
                    poolVars, storeVars >>

\* every lane has left its loop
KernelFinished == \A g \in DOMAIN laneIdx : laneIdx[g] >= Len(servers)

\* a slot of a device buffer as the host reads it: the value written by the
\* kernel, or any value where the kernel wrote none
SlotValues(buf, k, garbage) == IF k \in DOMAIN buf THEN {buf[k]} ELSE garbage

\* lines 140-160: queue.finish(), then the counter and the first
\* result_count entries of both buffers are read back
OpenclRead ==
    /\ openclpc = "kernel"
    /\ KernelFinished
    /\ result_count' = d_counter
    /\ \E ids \in [0 .. d_counter - 1 -> {1, 2}],
          rel \in [0 .. d_counter - 1 -> {F_0, THRESHOLD}] :
         /\ h_out_ids' = [k \in 0 .. d_counter - 1 |->
                            IF k \in DOMAIN d_out_ids THEN d_out_ids[k] ELSE ids[k]]
         /\ h_reliability' = [k \in 0 .. d_counter - 1 |->
                            IF k \in DOMAIN d_reliability THEN d_reliability[k] ELSE rel[k]]
    /\ applyI' = 0
    /\ openclpc' = IF d_counter > 0 THEN "lock" ELSE "done"
    /\ UNCHANGED << mainVars, kernelVars, senderVars, receiverVars, poolVars, storeVars >>

\* a runtime error of the OpenCL calls of lines 137-160, caught at line 174
OpenclFail_MidApply ==
    /\ openclpc \in {"kernel", "apply"}
    /\ openclpc' = "failed"
    /\ results_mutex' = IF openclpc = "apply" THEN "free" ELSE results_mutex
    /\ UNCHANGED << mainVars, kernelVars, hostVars, senderVars, receiverVars,
                    poolVars, results, writes >>

OpenclFail ==
    /\ openclpc = "kernel"
    /\ openclpc' = "failed"
    /\ UNCHANGED << mainVars, kernelVars, hostVars, senderVars, receiverVars,
                    poolVars, storeVars >>

\* line 162: std::scoped_lock lock(*mutex)
OpenclLock_NoLock ==
    /\ openclpc = "lock"
    /\ openclpc' = "apply"
    /\ UNCHANGED << mainVars, kernelVars, hostVars, senderVars, receiverVars,
                    poolVars, storeVars >>

OpenclLock ==
    /\ openclpc = "lock"
    /\ results_mutex = "free"
    /\ results_mutex' = "opencl"
    /\ openclpc' = "apply"
    /\ UNCHANGED << mainVars, kernelVars, hostVars, senderVars, receiverVars,
                    poolVars, results, writes >>

\* lines 164-168: find the id and write reliability and has_opencl_result
OpenclUpdate_NoFlag(res, id, reliability) ==
    IF id \in DOMAIN res
      THEN [res EXCEPT ![id].reliability = reliability]
      ELSE res

OpenclUpdate_ResetsRecord(res, id, reliability) ==
    IF id \in DOMAIN res
      THEN [res EXCEPT ![id].reliability = reliability,
                       ![id].stability = F_0,
                       ![id].has_opencl_result = TRUE,
                       ![id].has_python_result = FALSE]
      ELSE res

OpenclUpdate(res, id, reliability) ==
    IF id \in DOMAIN res
      THEN [res EXCEPT ![id].reliability = reliability,
                       ![id].has_opencl_result = TRUE]
      ELSE res

\* one iteration of the loop of lines 163-169
OpenclApply ==
    /\ openclpc = "apply"
    /\ applyI < result_count
    /\ results' = OpenclUpdate(results, h_out_ids[applyI], h_reliability[applyI])
    /\ writes' = IF h_out_ids[applyI] \in DOMAIN results
                   THEN [writes EXCEPT ![h_out_ids[applyI]].opencl = @ + 1]
                   ELSE writes
    /\ applyI' = applyI + 1
    /\ UNCHANGED << mainVars, openclpc, kernelVars, result_count, h_out_ids,
                    h_reliability, senderVars, receiverVars, poolVars, results_mutex >>

\* line 170: the loop is over, the lock is released; lines 172-173
OpenclUnlock ==
    /\ openclpc = "apply"
    /\ applyI >= result_count
    /\ results_mutex' = "free"
    /\ openclpc' = "done"
    /\ UNCHANGED << mainVars, kernelVars, hostVars, senderVars, receiverVars,
                    poolVars, results, writes >>

(* ----------------------------- sender_thread ---------------------------- *)
\* lines 29-37: the 12-byte buffer of one server
DataFrame_SwappedFields(server) ==
    Bytes4(server.id) \o Bytes4(server.uptime) \o Bytes4(server.load)

DataFrame(server) ==
    LET buf0 == [k \in 1..MSG_SIZE |-> 0]
        put(buf, off, bytes, n) ==
            [k \in 1..MSG_SIZE |->
               IF k > off /\ k <= off + n THEN bytes[k - off] ELSE buf[k]]
        buf1 == put(buf0, 0, Bytes4(server.id), ID_SIZE)
        buf2 == put(buf1, ID_SIZE, Bytes4(server.load), FLOAT_SIZE)
    IN  put(buf2, ID_SIZE + FLOAT_SIZE, Bytes4(server.uptime), UPTIME_SIZE)

\* lines 20-25: context, PUSH socket, connect, sleep
SenderConnect ==
    /\ senderpc = "connect"
    /\ senderpc' = "send"
    /\ UNCHANGED << mainVars, openclVars, sendIdx, outWire, receiverVars,
                    poolVars, storeVars >>

\* lines 28-39: one iteration of the send loop
SenderSend ==
    /\ senderpc = "send"
    /\ sendIdx < Len(servers)
    /\ outWire' = Append(outWire, DataFrame(servers[sendIdx + 1]))
    /\ sendIdx' = sendIdx + 1
    /\ UNCHANGED << mainVars, openclVars, senderpc, receiverVars, poolVars, storeVars >>

\* lines 42-47: the loop is over, the stop signal is sent
SenderStop_NoSignal ==
    /\ senderpc = "send"
    /\ sendIdx >= Len(servers)
    /\ senderpc' = "done"
    /\ UNCHANGED << mainVars, openclVars, sendIdx, outWire, receiverVars, poolVars,
                    storeVars >>

SenderStop ==
    /\ senderpc = "send"
    /\ sendIdx >= Len(servers)
    /\ outWire' = Append(outWire, << STOP_SIGNAL >>)
    /\ senderpc' = "done"
    /\ UNCHANGED << mainVars, openclVars, sendIdx, receiverVars, poolVars, storeVars >>

\* a zmq error in connect or in a send, caught at line 48
SenderFail_SendsStop ==
    /\ senderpc \in {"connect", "send"}
    /\ senderpc' = "failed"
    /\ outWire' = Append(outWire, << STOP_SIGNAL >>)
    /\ UNCHANGED << mainVars, openclVars, sendIdx, receiverVars,
                    poolVars, storeVars >>

SenderFail ==
    /\ senderpc \in {"connect", "send"}
    /\ senderpc' = "failed"
    /\ UNCHANGED << mainVars, openclVars, sendIdx, outWire, receiverVars,
                    poolVars, storeVars >>

(* ---------------------------- receiver_thread --------------------------- *)
\* lines 71-73: the stop signal test
IsStop_WrongByte(m) == Len(m) = 1 /\ m[1] = 0

IsStop_AnyByte(m) == Len(m) = 1

IsStop(m) == Len(m) = 1 /\ m[1] = STOP_SIGNAL

\* line 78: the result message test
IsResult_AtLeast(m) == Len(m) >= MSG_RESULT_SIZE

IsResult(m) == Len(m) = MSG_RESULT_SIZE

\* lines 82-85: the id and the stability of a result message
MsgId_WrongOffset(m) == Value4(m, ID_SIZE)

MsgId(m) == Value4(m, 0)
MsgStability(m) == Value4(m, ID_SIZE)

\* lines 58-62: context, PULL socket, bind
ReceiverBind ==
    /\ receiverpc = "bind"
    /\ receiverpc' = "recv"
    /\ UNCHANGED << mainVars, openclVars, senderVars, msg, count, received, poolVars, storeVars >>

\* lines 65-78: sock.recv returns the next frame; the stop signal breaks the
\* loop, a result message goes on to the lock, any other frame is skipped
ReceiverRecv ==
    /\ receiverpc = "recv"
    /\ inbox # << >>
    /\ LET m == Head(inbox)
       IN  /\ inbox' = Tail(inbox)
           /\ received' = Append(received, m)
           /\ IF IsStop(m)
                THEN receiverpc' = "done" /\ msg' = NoMsg
                ELSE IF IsResult(m)
                       THEN receiverpc' = "lock" /\ msg' = m
                       ELSE receiverpc' = "recv" /\ msg' = NoMsg
    /\ UNCHANGED << mainVars, openclVars, senderVars, count, poolSent, storeVars >>

\* lines 66-68: sock.recv returns no message and the loop calls it again
ReceiverRetry ==
    /\ receiverpc = "recv"
    /\ inbox = << >>
    /\ UNCHANGED vars

\* a zmq error in bind or in recv, caught at line 99
ReceiverFail ==
    /\ receiverpc \in {"bind", "recv"}
    /\ receiverpc' = "failed"
    /\ UNCHANGED << mainVars, openclVars, senderVars, msg, count, received, poolVars, storeVars >>

\* line 87: std::scoped_lock lock(*mutex)
ReceiverLock_NoLock ==
    /\ receiverpc = "lock"
    /\ receiverpc' = "update"
    /\ UNCHANGED << mainVars, openclVars, senderVars, msg, count,
                    received, poolVars, storeVars >>

ReceiverLock ==
    /\ receiverpc = "lock"
    /\ results_mutex = "free"
    /\ results_mutex' = "receiver"
    /\ receiverpc' = "update"
    /\ UNCHANGED << mainVars, openclVars, senderVars, msg, count, received, poolVars, results, writes >>

\* lines 88-92: find the id and write stability and has_python_result
ReceiverUpdate_WritesReliability(res, id, stability) ==
    IF id \in DOMAIN res
      THEN [res EXCEPT ![id].reliability = stability,
                       ![id].stability = stability,
                       ![id].has_python_result = TRUE]
      ELSE res

\* the flag set only for a stability of at least 50.0f
ReceiverUpdate_Thresholded(res, id, stability) ==
    IF id \in DOMAIN res
      THEN [res EXCEPT ![id].stability = stability,
                       ![id].has_python_result = FloatGE(stability, THRESHOLD)]
      ELSE res

\* load written in place of stability
ReceiverUpdate_WritesLoad(res, id, stability) ==
    IF id \in DOMAIN res
      THEN [res EXCEPT ![id].load = stability,
                       ![id].has_python_result = TRUE]
      ELSE res

\* (*results)[id] in place of find: an absent id is inserted
ReceiverUpdate_Inserts(res, id, stability) ==
    [k \in (DOMAIN res) \cup {id} |->
       IF k = id
         THEN IF id \in DOMAIN res
                THEN [res[id] EXCEPT !.stability = stability,
                                     !.has_python_result = TRUE]
                ELSE [id |-> id, location |-> "", uptime |-> 0, load |-> F_0,
                      reliability |-> F_0, stability |-> stability,
                      has_opencl_result |-> FALSE, has_python_result |-> TRUE]
         ELSE res[k]]

ReceiverUpdate(res, id, stability) ==
    IF id \in DOMAIN res
      THEN [res EXCEPT ![id].stability = stability,
                       ![id].has_python_result = TRUE]
      ELSE res

\* lines 88-94: the update, count++, and the release at the end of the block
ReceiverApply_KeepsLock ==
    /\ receiverpc = "update"
    /\ results' = ReceiverUpdate(results, MsgId(msg), MsgStability(msg))
    /\ writes' = IF MsgId(msg) \in DOMAIN results
                   THEN [writes EXCEPT ![MsgId(msg)].receiver = @ + 1]
                   ELSE writes
    /\ count' = count + 1
    /\ msg' = NoMsg
    /\ receiverpc' = "recv"
    /\ UNCHANGED << mainVars, openclVars, senderVars, received, poolVars, results_mutex >>

ReceiverApply ==
    /\ receiverpc = "update"
    /\ results' = ReceiverUpdate(results, MsgId(msg), MsgStability(msg))
    /\ writes' = IF MsgId(msg) \in DOMAIN results
                   THEN [writes EXCEPT ![MsgId(msg)].receiver = @ + 1]
                   ELSE writes
    /\ count' = count + 1
    /\ results_mutex' = "free"
    /\ msg' = NoMsg
    /\ receiverpc' = "recv"
    /\ UNCHANGED << mainVars, openclVars, senderVars, received, poolVars >>

(* ------------------------- external worker pool ------------------------- *)
\* the pool pushes a frame to the PULL socket of the receiver
PoolSend(f) ==
    /\ poolSent < MaxFrames
    /\ mainpc \notin {"idle", "exit"}
    /\ inbox' = Append(inbox, f)
    /\ poolSent' = poolSent + 1
    /\ UNCHANGED << mainVars, openclVars, senderVars, receiverVars, storeVars >>

(* ---------------------------- specification ----------------------------- *)
Main ==
    \/ MainLoad
    \/ StartOpencl
    \/ StartSender
    \/ StartReceiver
    \/ JoinReceiver
    \/ JoinSender
    \/ JoinOpencl
    \/ WriteOutput
    \/ MainReturn

Opencl ==
    \/ OpenclInit
    \/ \E gid \in DOMAIN laneIdx : KernelLane(gid)
    \/ OpenclRead
    \/ OpenclFail
    \/ OpenclLock
    \/ OpenclApply
    \/ OpenclUnlock

Sender ==
    \/ SenderConnect
    \/ SenderSend
    \/ SenderStop
    \/ SenderFail

Receiver ==
    \/ ReceiverBind
    \/ ReceiverRecv
    \/ ReceiverRetry
    \/ ReceiverFail
    \/ ReceiverLock
    \/ ReceiverApply

Pool == \E f \in PoolFrames : PoolSend(f)

Next == Main \/ Opencl \/ Sender \/ Receiver \/ Pool

Spec == Init /\ [][Next]_vars

\* The threads are scheduled fairly: a thread that can take a step of its
\* code takes one.  Errors of the runtime and of the transport need not
\* happen, and the pool is not obliged to push anything.
FairSpec ==
    /\ Spec
    /\ WF_vars(Main)
    /\ WF_vars(OpenclInit \/ (\E gid \in DOMAIN laneIdx : KernelLane(gid)) \/ OpenclRead
                 \/ OpenclLock \/ OpenclApply \/ OpenclUnlock)
    /\ WF_vars(SenderConnect \/ SenderSend \/ SenderStop)
    /\ WF_vars(ReceiverBind \/ ReceiverRecv \/ ReceiverLock \/ ReceiverApply)

(* ------------------------------- claims --------------------------------- *)
AllReturned ==
    /\ openclpc \in {"done", "failed"}
    /\ senderpc \in {"done", "failed"}
    /\ receiverpc \in {"done", "failed"}

NoneStarted ==
    /\ openclpc = "notstarted"
    /\ senderpc = "notstarted"
    /\ receiverpc = "notstarted"

\* C1: write_output is called, and the report exists, only when all three
\* workers have returned (done or failed) and nobody holds the store lock.
C1_ReportAfterAllReturned ==
    (mainpc \in {"joined", "reported"} \/ report.written \/ exitStatus = 0)
        => AllReturned /\ results_mutex = "free"

\* a report written after the accelerator worker failed and the receiver ended
C1_Witness ==
    /\ report.written
    /\ openclpc = "failed"
    /\ receiverpc = "done"
    /\ senderpc = "done"

\* C2: when load_data returned false or the loaded list is empty, main has
\* returned 1, no worker was started and no report was written.
C2_LoadFailureHalts ==
    (mainpc # "idle" /\ (~load_ok \/ servers = << >>))
        => /\ mainpc = "exit"
           /\ exitStatus = 1
           /\ NoneStarted
           /\ ~report.written

\* load_data threw after one entry was stored: the list is not empty, main
\* has returned 1
C2_Witness ==
    /\ mainpc = "exit"
    /\ ~load_ok
    /\ Len(servers) = 1
    /\ exitStatus = 1

\* a successful load of an empty list
C2_WitnessEmpty ==
    /\ mainpc = "exit"
    /\ load_ok
    /\ servers = << >>

\* the orchestrator has loaded a non-empty record set
Running == mainpc # "idle" /\ load_ok /\ servers # << >>

\* write_output has been called
Reported == mainpc \in {"reported", "exit"} /\ exitStatus # 1

StopQueued == \E k \in DOMAIN inbox : inbox[k] = << 255 >>

C4_UpdatesUnderLock ==
    /\ ~(openclpc = "apply" /\ receiverpc = "update")
    /\ openclpc = "apply" => results_mutex = "opencl"
    /\ receiverpc = "update" => results_mutex = "receiver"
    /\ results_mutex = "opencl" => openclpc = "apply"
    /\ results_mutex = "receiver" => receiverpc = "update"

\* the receiver waits for the lock while the accelerator worker is in the
\* middle of its updates
C4_Witness ==
    /\ openclpc = "apply"
    /\ applyI = 1
    /\ result_count = 2
    /\ receiverpc = "lock"

\* the ids of the input list are pairwise different
UniqueIds(srv) == \A i, j \in DOMAIN srv : srv[i].id = srv[j].id => i = j

\* the accelerator results ids[from..n-1] applied to a store, in order
RECURSIVE ApplyOpenclFrom(_, _, _, _, _)
ApplyOpenclFrom(res, ids, rel, from, n) ==
    IF from >= n THEN res
    ELSE ApplyOpenclFrom(OpenclUpdate(res, ids[from], rel[from]), ids, rel, from + 1, n)

\* the result frames of a sequence of received frames applied to a store
RECURSIVE ApplyFrames(_, _)
ApplyFrames(res, frames) ==
    IF frames = << >> THEN res
    ELSE LET m == Head(frames)
             next == IF IsResult(m) /\ ~IsStop(m)
                       THEN ReceiverUpdate(res, MsgId(m), MsgStability(m))
                       ELSE res
         IN  ApplyFrames(next, Tail(frames))

\* the accelerator results that were applied: all of them once the worker is
\* done, none when it failed
AppliedCount == IF openclpc = "done" THEN result_count ELSE 0

\* C5: when all workers have returned, the store is the loaded store with the
\* accelerator results and the received frames applied, whichever of the two
\* is applied first.
C5_OrderIndependent ==
    AllReturned =>
        LET store0 == LoadResults(servers)
            accFirst == ApplyFrames(
                ApplyOpenclFrom(store0, h_out_ids, h_reliability, 0, AppliedCount),
                received)
            recvFirst == ApplyOpenclFrom(ApplyFrames(store0, received),
                                         h_out_ids, h_reliability, 0, AppliedCount)
        IN  results = accFirst /\ results = recvFirst

\* both writers have written the same record, the receiver twice
C5_Witness ==
    /\ AllReturned
    /\ \E id \in DOMAIN results :
         /\ writes[id].opencl >= 1
         /\ writes[id].receiver = 2
         /\ results[id].has_opencl_result
         /\ results[id].has_python_result

\* C6: no step turns has_opencl_result or has_python_result of a record
\* from true to false, and no record disappears.
C6_FlagsMonotone ==
    [][\A id \in DOMAIN results :
          /\ id \in DOMAIN results'
          /\ results[id].has_opencl_result => results'[id].has_opencl_result
          /\ results[id].has_python_result => results'[id].has_python_result]_vars

\* a record with both flags set whose second receiver update has been applied
C6_Witness ==
    \E id \in DOMAIN results :
        /\ results[id].has_opencl_result
        /\ results[id].has_python_result
        /\ writes[id].receiver = 2

\* C7 as stated: with unique ids every record is written at most once by
\* the accelerator worker and at most once by the receiver.
C7_AtMostOnceEach ==
    UniqueIds(servers) =>
        \A id \in DOMAIN writes : writes[id].opencl <= 1 /\ writes[id].receiver <= 1

\* the 8-byte frames carrying an id among the received frames
FramesFor(id, frames) ==
    {k \in DOMAIN frames :
        Len(frames[k]) = 8 /\ SubSeq(frames[k], 1, 4) = Bytes4(id)}

\* the received frame the receiver has not applied yet
PendingFor(id) ==
    IF receiverpc \in {"lock", "update"} /\ SubSeq(msg, 1, 4) = Bytes4(id) THEN 1 ELSE 0

\* C7 amended: with unique ids every record is written at most once by the
\* accelerator worker, and by the receiver once per received 8-byte frame
\* that carries its id.
C7_OncePerFrame ==
    UniqueIds(servers) =>
        \A id \in DOMAIN writes :
            /\ writes[id].opencl <= 1
            /\ writes[id].receiver =
                 Cardinality(FramesFor(id, received)) - PendingFor(id)

\* a record written once by the accelerator worker and twice by the receiver
C7_Witness ==
    /\ UniqueIds(servers)
    /\ \E id \in DOMAIN writes : writes[id].opencl = 1 /\ writes[id].receiver = 2

\* C8: when the accelerator worker is done and the ids are unique, a record
\* has has_opencl_result iff its kernel reliability is at least 50.0f, and a
\* record that has the flag stores its own kernel reliability.
C8_PassIffAtLeast50 ==
    (openclpc = "done" /\ UniqueIds(servers)) =>
        \A k \in DOMAIN servers :
            LET r == results[servers[k].id]
                v == KernelReliability(servers[k].uptime, servers[k].load)
            IN  /\ r.has_opencl_result <=> v >= 1112014848
                /\ r.has_opencl_result => r.reliability = v

\* a record at exactly 50.0f has passed and one just below has not
C8_Witness ==
    /\ openclpc = "done"
    /\ servers = << ServerA, ServerB >>
    /\ results[1].has_opencl_result /\ results[1].reliability = 1112014848
    /\ ~results[2].has_opencl_result

\* the frame the protocol prescribes for a server: id, load, uptime
WireFrame(server) == Bytes4(server.id) \o Bytes4(server.load) \o Bytes4(server.uptime)

\* C9: the frames sent are the 12-byte frames of the servers in input order;
\* a sender that is done has sent all of them and then one stop frame, and
\* the stop frame is never followed by another frame.
C9_FramesThenStop ==
    /\ \A k \in DOMAIN outWire :
         IF k <= Len(servers)
           THEN outWire[k] = WireFrame(servers[k]) /\ Len(outWire[k]) = 12
           ELSE outWire[k] = << 255 >> /\ k = Len(servers) + 1 /\ senderpc = "done"
    /\ senderpc = "done" => Len(outWire) = Len(servers) + 1
    /\ senderpc \in {"send", "failed"} => Len(outWire) = sendIdx

\* the sender is done with two servers while the accelerator worker failed
C9_Witness ==
    /\ senderpc = "done"
    /\ Len(servers) = 2
    /\ Len(outWire) = 3
    /\ openclpc = "failed"

\* the fields of the store that the receiver writes
ReceiverView == [id \in DOMAIN results |->
                   << results[id].stability, results[id].has_python_result >>]

\* C10: the receiver is done exactly when the last frame it received is the
\* first stop frame; once done it receives and applies nothing more; a stop
\* frame received first leaves the store as loaded.
C10_StopOnlyOnSentinel ==
    /\ [](/\ receiverpc = "done" <=>
               (received # << >> /\ received[Len(received)] = << 255 >>)
          /\ \A k \in DOMAIN received : received[k] = << 255 >> => k = Len(received)
          /\ (receiverpc = "done" /\ Len(received) = 1) =>
               (count = 0 /\ \A id \in DOMAIN results :
                                ~results[id].has_python_result
                                /\ results[id].stability = 0))
    /\ [][receiverpc = "done" =>
            /\ receiverpc' = "done"
            /\ received' = received
            /\ count' = count
            /\ ReceiverView' = ReceiverView]_vars

\* the stop frame came first and a result frame for a stored id came later
C10_Witness ==
    /\ receiverpc = "done"
    /\ Len(received) = 1
    /\ inbox # << >>
    /\ Len(Head(inbox)) = 8
    /\ 1 \in DOMAIN results
    /\ mainpc = "exit"

(* ------------------- the wire formats on bounded inputs ------------------ *)
\* ServerData values whose fields cover the int32 and float32 bit patterns:
\* ids and uptimes at both ends of int32, loads 0.0f, 0.25f, -1.0f and a NaN
WireRecords ==
    { [id |-> i, location |-> "Wire", uptime |-> u, load |-> l] :
        i \in {(0 - 2147483647) - 1, -1, 0, 1, 255, 65536, 2147483647},
        u \in {-1, 0, 1000, 2147483647},
        l \in {0, 1048576000, 0 - 1082130432, 2143289344} }

\* frames as the PULL socket may deliver them, byte by byte: empty, 1 byte,
\* 2 bytes, 7, 8, 9 and 12 bytes; 8-byte and 12-byte frames that start with
\* 0xFF; 8-byte frames for the ids 1, -1 and 255
WireFrames ==
    { << >>,
      << 255 >>,
      << 0 >>,
      << 255, 255 >>,
      << 1, 0, 0, 0, 0, 0, 200 >>,
      << 1, 0, 0, 0, 0, 0, 200, 65 >>,
      << 255, 255, 255, 255, 0, 0, 150, 66 >>,
      << 255, 0, 0, 0, 0, 0, 0, 0 >>,
      << 1, 0, 0, 0, 0, 0, 200, 65, 0 >>,
      << 1, 0, 0, 0, 0, 0, 128, 62, 232, 3, 0, 0 >>,
      << 255, 0, 0, 0, 0, 0, 128, 62, 232, 3, 0, 0 >> }

\* sender_thread in its send loop and receiver_thread in its receive loop,
\* for one loaded server and one frame waiting on the PULL socket; the
\* accelerator worker found no device
WireInit ==
    /\ mainpc = "join_receiver"
    /\ load_ok = TRUE
    /\ exitStatus = -1
    /\ \E s \in WireRecords :
         /\ servers = << s >>
         /\ results = LoadResults(<< s >>)
         /\ writes = [ id \in {s.id} |-> [opencl |-> 0, receiver |-> 0] ]
    /\ results_mutex = "free"
    /\ report = NoReport
    /\ openclpc = "failed"
    /\ laneIdx = << >>
    /\ laneOut = << >>
    /\ d_counter = 0
    /\ d_out_ids = << >>
    /\ d_reliability = << >>
    /\ result_count = 0
    /\ h_out_ids = << >>
    /\ h_reliability = << >>
    /\ applyI = 0
    /\ senderpc = "send"
    /\ sendIdx = 0
    /\ outWire = << >>
    /\ receiverpc = "recv"
    /\ msg = NoMsg
    /\ count = 0
    /\ \E f \in WireFrames : inbox = << f >>
    /\ received = << >>
    /\ poolSent = 1

WireNext ==
    \/ SenderSend
    \/ SenderStop
    \/ ReceiverRecv
    \/ ReceiverRetry
    \/ ReceiverLock
    \/ ReceiverApply

WireSpec == WireInit /\ [][WireNext]_vars

\* C11: a received frame ends the receive loop iff it is the single byte
\* 0xFF, goes on to the locked update iff it has exactly 8 bytes, and in
\* every other case the receiver is back at recv; the receive step itself
\* leaves the store and the count as they were, and the count moves only in
\* the locked update of an 8-byte frame.
C11_ClassifiedBySize ==
    [][/\ received' # received =>
            LET m == received'[Len(received')]
            IN  /\ receiverpc' = "done" <=> m = << 255 >>
                /\ receiverpc' = "lock" <=> Len(m) = 8
                /\ (m # << 255 >> /\ Len(m) # 8) =>
                       (receiverpc' = "recv" /\ msg' = << >>)
                /\ Len(m) = 8 => msg' = m
                /\ results' = results
                /\ count' = count
       /\ count' # count => (receiverpc = "update" /\ Len(msg) = 8)]_vars

\* an 8-byte frame whose first byte is 0xFF was applied as a result, and the
\* loop is back at recv
C11_Witness ==
    /\ received = << << 255, 255, 255, 255, 0, 0, 150, 66 >> >>
    /\ count = 1
    /\ receiverpc = "recv"
    /\ -1 \in DOMAIN results
    /\ results[-1].has_python_result

\* a 12-byte frame that starts with 0xFF was dropped
C11_WitnessDropped ==
    /\ received # << >>
    /\ Len(received[1]) = 12
    /\ received[1][1] = 255
    /\ count = 0
    /\ receiverpc = "recv"
    /\ results = LoadResults(servers)

(* ---------------- the two locked updates on bounded inputs --------------- *)
\* compacted accelerator results as the host may read them back: one or two
\* entries, with ids of the store and the id 7 that no input carries
UpdateIds == {1, 2, 7}
UpdateScores == {THRESHOLD, 1117126656}

\* result frames for the ids 1, 2 and 7, and the stop signal
UpdateFrames ==
    { << 255 >>,
      << 1, 0, 0, 0, 0, 0, 200, 65 >>,
      << 2, 0, 0, 0, 0, 0, 150, 66 >>,
      << 7, 0, 0, 0, 0, 0, 200, 65 >> }

\* opencl_thread before its locked block and receiver_thread in its receive
\* loop with one frame waiting; the sender is done
UpdateInit ==
    /\ mainpc = "join_receiver"
    /\ load_ok = TRUE
    /\ exitStatus = -1
    /\ servers \in InputLists \ {<< >>}
    /\ results = LoadResults(servers)
    /\ writes = [ id \in DOMAIN results |-> [opencl |-> 0, receiver |-> 0] ]
    /\ results_mutex = "free"
    /\ report = NoReport
    /\ openclpc = "lock"
    /\ laneIdx = << >>
    /\ laneOut = << >>
    /\ d_counter = 0
    /\ d_out_ids = << >>
    /\ d_reliability = << >>
    /\ result_count \in 1..2
    /\ h_out_ids \in [0 .. result_count - 1 -> UpdateIds]
    /\ h_reliability \in [0 .. result_count - 1 -> UpdateScores]
    /\ applyI = 0
    /\ senderpc = "done"
    /\ sendIdx = Len(servers)
    /\ outWire = [k \in 1 .. Len(servers) + 1 |->
                    IF k <= Len(servers) THEN DataFrame(servers[k])
                    ELSE << STOP_SIGNAL >>]
    /\ receiverpc = "recv"
    /\ msg = NoMsg
    /\ count = 0
    /\ \E f \in UpdateFrames : inbox = << f >>
    /\ received = << >>
    /\ poolSent = 1

UpdateNext ==
    \/ OpenclLock
    \/ OpenclApply
    \/ OpenclUnlock
    \/ ReceiverRecv
    \/ ReceiverRetry
    \/ ReceiverLock
    \/ ReceiverApply

UpdateSpec == UpdateInit /\ [][UpdateNext]_vars

\* the ids of the loaded input list
LoadedIds == {servers[k].id : k \in DOMAIN servers}

\* the frame in msg carries an id that is no key of the store
MsgIdUnknown == \A id \in DOMAIN results : SubSeq(msg, 1, 4) # Bytes4(id)

\* C12: the keys of the store are the loaded ids in every state and no step
\* after load_data changes them; an
\* iteration of the accelerator's update loop on an id that is no key, and a
\* locked update of the receiver on a frame whose id is no key, leave the
\* store as it was, and the worker goes on (next iteration, next recv).
C12_UnknownIdIgnored ==
    /\ [](DOMAIN results = LoadedIds)
    /\ [][/\ mainpc # "idle" => DOMAIN results' = DOMAIN results
          /\ (applyI' # applyI /\ h_out_ids[applyI] \notin DOMAIN results) =>
                /\ results' = results
                /\ openclpc' = "apply"
                /\ applyI' = applyI + 1
          /\ (receiverpc = "update" /\ receiverpc' # "update" /\ MsgIdUnknown) =>
                /\ results' = results
                /\ receiverpc' = "recv"
                /\ count' = count + 1]_vars

\* both workers have handled an id that is no key, and the store is as loaded
C12_Witness ==
    /\ openclpc = "done"
    /\ \A k \in DOMAIN h_out_ids : h_out_ids[k] \notin DOMAIN results
    /\ count = 1
    /\ received = << << 7, 0, 0, 0, 0, 0, 200, 65 >> >>
    /\ receiverpc = "recv"
    /\ results = LoadResults(servers)

\* C13: every data frame the sender has sent has 12 bytes in 0..255, and its
\* bytes 0-3, 4-7 and 8-11 decode to the id, the load and the uptime of the
\* server at that position; the locked update of the receiver stores, in the
\* record whose id is in bytes 0-3 of the frame, the value in bytes 4-7.
C13_FrameLayout ==
    /\ [](\A k \in DOMAIN outWire :
             k <= Len(servers) =>
                /\ Len(outWire[k]) = 12
                /\ \A b \in 1..12 : outWire[k][b] \in 0..255
                /\ Value4(outWire[k], 0) = servers[k].id
                /\ Value4(outWire[k], 4) = servers[k].load
                /\ Value4(outWire[k], 8) = servers[k].uptime)
    /\ [][(receiverpc = "update" /\ receiverpc' # "update") =>
             /\ Len(msg) = 8
             /\ \A id \in DOMAIN results :
                   IF Value4(msg, 0) = id
                     THEN /\ results'[id].stability = Value4(msg, 4)
                          /\ results'[id].has_python_result
                     ELSE results'[id] = results[id]]_vars

\* id -1, load -1.0f and uptime 1000 were sent as FF FF FF FF 00 00 80 BF
\* E8 03 00 00, and the frame FF FF FF FF 00 00 96 42 stored 75.0f for id -1
C13_Witness ==
    /\ servers = << [id |-> -1, location |-> "Wire", uptime |-> 1000,
                     load |-> 0 - 1082130432] >>
    /\ outWire = << << 255, 255, 255, 255, 0, 0, 128, 191, 232, 3, 0, 0 >>,
                    << 255 >> >>
    /\ received = << << 255, 255, 255, 255, 0, 0, 150, 66 >> >>
    /\ results[-1].stability = 1117126656
    /\ results[-1].has_python_result

(* -------------------- write_output on bounded inputs --------------------- *)
\* a third server, id 3, whose kernel reliability is 75.0f
ServerD == [id |-> 3, location |-> "Klaipeda", uptime |-> 1000, load |-> 1048576000]
ReportRecords == {ServerA, ServerB, ServerD}

\* the ids of the servers that the kernel compacts
PassingIds(srv) ==
    {srv[k].id : k \in {j \in DOMAIN srv :
        FloatGE(KernelReliability(srv[j].uptime, srv[j].load), THRESHOLD)}}

\* the store after the concurrent phase: the records of acc carry the kernel
\* reliability, the records of ext the stability 25.0f
FinishedStore(srv, acc, ext) ==
    [ id \in {srv[k].id : k \in DOMAIN srv} |->
        LET s == srv[CHOOSE k \in DOMAIN srv : srv[k].id = id]
        IN  [ id |-> id, location |-> s.location, uptime |-> s.uptime, load |-> s.load,
              reliability |-> IF id \in acc THEN KernelReliability(s.uptime, s.load)
                              ELSE F_0,
              stability |-> IF id \in ext THEN 1103626240 ELSE F_0,
              has_opencl_result |-> id \in acc,
              has_python_result |-> id \in ext ] ]

\* main after the joins: up to three servers with the ids 1, 2, 3; the
\* accelerator worker is done, or failed with nothing applied; the receiver
\* has taken one result frame for every id of ext, then the stop signal
ReportInit ==
    /\ mainpc = "joined"
    /\ load_ok = TRUE
    /\ exitStatus = -1
    /\ servers \in SeqsUpTo(ReportRecords, MaxReportRecords) \ {<< >>}
    /\ openclpc \in {"done", "failed"}
    /\ \E ext \in SUBSET LoadedIds :
         LET acc == IF openclpc = "done" THEN PassingIds(servers) ELSE {}
             accKeys == SortedKeys(acc)
             extKeys == SortedKeys(ext)
         IN  /\ results = FinishedStore(servers, acc, ext)
             /\ writes = [ id \in LoadedIds |->
                             [opencl |-> IF id \in acc THEN 1 ELSE 0,
                              receiver |-> IF id \in ext THEN 1 ELSE 0] ]
             /\ result_count = Len(accKeys)
             /\ h_out_ids = [k \in 0 .. Len(accKeys) - 1 |-> accKeys[k + 1]]
             /\ h_reliability = [k \in 0 .. Len(accKeys) - 1 |->
                                   results[accKeys[k + 1]].reliability]
             /\ received = [k \in 1 .. Len(extKeys) + 1 |->
                              IF k <= Len(extKeys)
                                THEN ResultFrame(extKeys[k], 1103626240)
                                ELSE StopFrame]
             /\ count = Len(extKeys)
             /\ poolSent = Len(extKeys) + 1
    /\ applyI = result_count
    /\ d_counter = result_count
    /\ d_out_ids = h_out_ids
    /\ d_reliability = h_reliability
    /\ laneIdx = IF openclpc = "done"
                   THEN [g \in ActiveLanes(Len(servers)) |-> g + GlobalSize(Len(servers))]
                   ELSE << >>
    /\ laneOut = [g \in DOMAIN laneIdx |-> -1]
    /\ results_mutex = "free"
    /\ report = NoReport
    /\ senderpc = "done"
    /\ sendIdx = Len(servers)
    /\ outWire = [k \in 1 .. Len(servers) + 1 |->
                    IF k <= Len(servers) THEN DataFrame(servers[k])
                    ELSE << STOP_SIGNAL >>]
    /\ receiverpc = "done"
    /\ msg = NoMsg
    /\ inbox = << >>

ReportNext == WriteOutput \/ MainReturn

ReportSpec == ReportInit /\ [][ReportNext]_vars

\* the ids whose record has the accelerator flag, the receiver flag
AccIds == {id \in DOMAIN results : results[id].has_opencl_result}
ExtIds == {id \in DOMAIN results : results[id].has_python_result}

\* C14 as stated: the statistics of a written report are the number of
\* records with the accelerator flag only, with the receiver flag only, and
\* with both.
C14_ExclusiveCounts ==
    report.written =>
        /\ report.Filter1 = Cardinality(AccIds \ ExtIds)
        /\ report.Filter2 = Cardinality(ExtIds \ AccIds)
        /\ report.Both = Cardinality(AccIds \cap ExtIds)

\* C14 amended: the statistics of a written report are the number of
\* servers, the number of records with the accelerator flag, the number with
\* the receiver flag, and the number with both; with ids {1,2,3}, accelerator
\* flags on {1,3} and receiver flags on {1,2} they are 3, 2, 2 and 1.
C14_InclusiveCounts ==
    report.written =>
        /\ report.Total = Len(servers)
        /\ report.Filter1 = Cardinality(AccIds)
        /\ report.Filter2 = Cardinality(ExtIds)
        /\ report.Both = Cardinality(AccIds \cap ExtIds)
        /\ (DOMAIN results = {1, 2, 3} /\ AccIds = {1, 3} /\ ExtIds = {1, 2}) =>
              /\ report.Total = 3
              /\ report.Filter1 = 2
              /\ report.Filter2 = 2
              /\ report.Both = 1

\* the report of ids {1,2,3} with accelerator flags {1,3}, receiver flags {1,2}
C14_Witness ==
    /\ report.written
    /\ DOMAIN results = {1, 2, 3}
    /\ AccIds = {1, 3}
    /\ ExtIds = {1, 2}
    /\ report.Filter1 = 2

\* C15: in a written report every record with both flags has exactly one
\* row in the filtered table, a record with one flag or none has no row,
\* and every row shows the fields of the record of the store with its id.
C15_RowsIffBoth ==
    report.written =>
        /\ \A id \in DOMAIN results :
              Cardinality({k \in DOMAIN report.rows : report.rows[k].id = id}) =
                 IF results[id].has_opencl_result /\ results[id].has_python_result
                   THEN 1 ELSE 0
        /\ \A k \in DOMAIN report.rows :
              /\ report.rows[k].id \in DOMAIN results
              /\ report.rows[k].reliability = results[report.rows[k].id].reliability
              /\ report.rows[k].stability = results[report.rows[k].id].stability
              /\ report.rows[k].location = results[report.rows[k].id].location

\* a report whose only row is record 1, next to record 2 with the receiver
\* flag only and record 3 with the accelerator flag only
C15_Witness ==
    /\ report.written
    /\ Len(report.rows) = 1
    /\ report.rows[1].id = 1
    /\ DOMAIN results = {1, 2, 3}
    /\ results[2].has_python_result /\ ~results[2].has_opencl_result
    /\ results[3].has_opencl_result /\ ~results[3].has_python_result

\* C16: an accelerator worker that has failed has written no record (every
\* reliability is 0.0f, no has_opencl_result is set) and does not hold the
\* mutex; after its failure the sender still returns, and the receiver
\* returns once the stop frame is queued.
C16_FailureWritesNothing ==
    /\ [](openclpc = "failed" =>
             /\ \A id \in DOMAIN results :
                   /\ results[id].reliability = 0
                   /\ ~results[id].has_opencl_result
                   /\ writes[id].opencl = 0
             /\ results_mutex # "opencl")
    /\ (openclpc = "failed") ~> (senderpc \in {"done", "failed"})
    /\ (openclpc = "failed" /\ StopQueued) ~> (receiverpc \in {"done", "failed"})

\* the accelerator worker failed while the kernel ran over a passing server;
\* the sender and the receiver are done and the receiver has written a record
C16_Witness ==
    /\ openclpc = "failed"
    /\ d_counter >= 1
    /\ senderpc = "done"
    /\ receiverpc = "done"
    /\ \E id \in DOMAIN results :
         results[id].has_python_result /\ ~results[id].has_opencl_result
    /\ mainpc = "exit"
    /\ exitStatus = 0

(* ------------------- the kernel with interleaved lanes ------------------- *)
KernelRecords == {ServerA, ServerB, ServerC, ServerD}

\* opencl_thread after enqueueNDRangeKernel: every lane is at its first idx
\* and the counter is 0; the sender is done, the receiver waits in recv
KernelInit ==
    /\ mainpc = "join_receiver"
    /\ load_ok = TRUE
    /\ exitStatus = -1
    /\ servers \in SeqsUpTo(KernelRecords, MaxKernelRecords) \ {<< >>}
    /\ results = LoadResults(servers)
    /\ writes = [ id \in DOMAIN results |-> [opencl |-> 0, receiver |-> 0] ]
    /\ results_mutex = "free"
    /\ report = NoReport
    /\ openclpc = "kernel"
    /\ laneIdx = [g \in ActiveLanes(Len(servers)) |-> g]
    /\ laneOut = [g \in ActiveLanes(Len(servers)) |-> -1]
    /\ d_counter = 0
    /\ d_out_ids = << >>
    /\ d_reliability = << >>
    /\ result_count = 0
    /\ h_out_ids = << >>
    /\ h_reliability = << >>
    /\ applyI = 0
    /\ senderpc = "done"
    /\ sendIdx = Len(servers)
    /\ outWire = [k \in 1 .. Len(servers) + 1 |->
                    IF k <= Len(servers) THEN DataFrame(servers[k])
                    ELSE << STOP_SIGNAL >>]
    /\ receiverpc = "recv"
    /\ msg = NoMsg
    /\ count = 0
    /\ inbox = << >>
    /\ received = << >>
    /\ poolSent = 0

KernelNext ==
    \/ \E gid \in DOMAIN laneIdx : KernelInc(gid)
    \/ \E gid \in DOMAIN laneIdx : KernelStore(gid)
    \/ OpenclRead

KernelSpec == KernelInit /\ [][KernelNext]_vars

\* the kernel reliability of the server at index i (0-based)
ReliabilityAt(i) == KernelReliability(servers[i + 1].uptime, servers[i + 1].load)

\* the indices of the servers at or above 50.0f
PassingIdx == {i \in 0 .. Len(servers) - 1 : ReliabilityAt(i) >= 1112014848}

\* the passing indices whose lane has an output index, has done its stores
TakenIdx == {i \in PassingIdx : laneOut[i] # -1 \/ laneIdx[i] >= Len(servers)}
StoredIdx == {i \in PassingIdx : laneIdx[i] >= Len(servers)}

\* C17: in every state of the kernel, under every order of the lanes'
\* steps: the counter is the number of passing records that have taken an
\* index; the indices held by lanes are pairwise different, below the
\* counter and not yet written; the written slots of out_ids and
\* out_reliability are the same, lie below the counter, and correspond one
\* to one to the passing records that have stored, each slot holding the id
\* and the reliability of its record; when every lane has finished the
\* slots are exactly 0..counter-1, the counter is the number of passing
\* records, and the host reads these values back.
C17_CompactionCollisionFree ==
    DOMAIN laneIdx # {} =>
        /\ d_counter = Cardinality(TakenIdx)
        /\ \A i \in DOMAIN laneOut :
              laneOut[i] # -1 =>
                 /\ laneOut[i] \in 0 .. d_counter - 1
                 /\ laneOut[i] \notin DOMAIN d_out_ids
                 /\ \A j \in DOMAIN laneOut : laneOut[j] = laneOut[i] => j = i
        /\ DOMAIN d_out_ids = DOMAIN d_reliability
        /\ DOMAIN d_out_ids \subseteq 0 .. d_counter - 1
        /\ \E f \in [DOMAIN d_out_ids -> StoredIdx] :
              /\ \A k, l \in DOMAIN f : f[k] = f[l] => k = l
              /\ {f[k] : k \in DOMAIN f} = StoredIdx
              /\ \A k \in DOMAIN f :
                    /\ d_out_ids[k] = servers[f[k] + 1].id
                    /\ d_reliability[k] = ReliabilityAt(f[k])
        /\ KernelFinished =>
              /\ d_counter = Cardinality(PassingIdx)
              /\ DOMAIN d_out_ids = 0 .. d_counter - 1
              /\ {d_out_ids[k] : k \in DOMAIN d_out_ids} =
                    {servers[i + 1].id : i \in PassingIdx}
        /\ openclpc \in {"lock", "done"} =>
              /\ result_count = Cardinality(PassingIdx)
              /\ h_out_ids = d_out_ids
              /\ h_reliability = d_reliability

\* three passing records compacted in the reverse of the input order
C17_Witness ==
    /\ servers = << ServerA, ServerC, ServerD >>
    /\ KernelFinished
    /\ d_counter = 3
    /\ d_out_ids[0] = 3 /\ d_out_ids[1] = 2 /\ d_out_ids[2] = 1
    /\ d_reliability[2] = 1112014848

\* two lanes hold their output indices and neither has stored yet
C17_WitnessHeld ==
    /\ Cardinality({i \in DOMAIN laneOut : laneOut[i] # -1}) = 2
    /\ d_out_ids = << >>
    /\ d_counter = 2

(* ------------------ the grid-striding loop on large counts --------------- *)
\* record counts around the multiples of the local size
GridCounts ==
    {1, 2, LOCAL_SIZE - 1, LOCAL_SIZE, LOCAL_SIZE + 1, 2 * LOCAL_SIZE, 2 * LOCAL_SIZE + 1}

\* the server at position k of a list whose ids are the positions; its
\* reliability is 50.0f, so the kernel compacts every index it visits
GridServer(k) == [id |-> k, location |-> "Grid", uptime |-> 0, load |-> 1048576000]

\* opencl_thread after enqueueNDRangeKernel for a list of n servers
GridInit ==
    /\ mainpc = "join_receiver"
    /\ load_ok = TRUE
    /\ exitStatus = -1
    /\ \E n \in GridCounts : servers = [k \in 1..n |-> GridServer(k)]
    /\ results = [k \in 1 .. Len(servers) |-> NewResult(servers[k])]
    /\ writes = [ id \in DOMAIN results |-> [opencl |-> 0, receiver |-> 0] ]
    /\ results_mutex = "free"
    /\ report = NoReport
    /\ openclpc = "kernel"
    /\ laneIdx = [g \in ActiveLanes(Len(servers)) |-> g]
    /\ laneOut = [g \in ActiveLanes(Len(servers)) |-> -1]
    /\ d_counter = 0
    /\ d_out_ids = << >>
    /\ d_reliability = << >>
    /\ result_count = 0
    /\ h_out_ids = << >>
    /\ h_reliability = << >>
    /\ applyI = 0
    /\ senderpc = "failed"
    /\ sendIdx = 0
    /\ outWire = << >>
    /\ receiverpc = "recv"
    /\ msg = NoMsg
    /\ count = 0
    /\ inbox = << >>
    /\ received = << >>
    /\ poolSent = 0

\* the lanes take their iterations in the order of gid: the indices a lane
\* visits depend on gid, gsize and count alone
GridLane ==
    LET pending == {g \in DOMAIN laneIdx : laneIdx[g] < Len(servers)}
    IN  /\ pending # {}
        /\ KernelLane(CHOOSE g \in pending : \A h \in pending : g <= h)

GridNext == GridLane

GridSpec == GridInit /\ [][GridNext]_vars

\* C18: the global size is a multiple of 256, at least the count and less
\* than 256 above it; every iteration of a lane is on an index below the
\* count; every index is visited at most once, and when all lanes have
\* finished every index 0..count-1 has been visited exactly once (the
\* counter is the count and the compacted ids are those of all positions).
C18_EveryIndexOnce ==
    /\ [](LET n == Len(servers)
              gsize == GlobalSize(n)
          IN  /\ gsize % 256 = 0 /\ gsize >= n /\ gsize - n < 256
              /\ DOMAIN d_out_ids = 0 .. d_counter - 1
              /\ \A k, l \in DOMAIN d_out_ids : d_out_ids[k] = d_out_ids[l] => k = l
              /\ \A k \in DOMAIN d_out_ids : d_out_ids[k] \in 1..n
              /\ KernelFinished =>
                    /\ d_counter = n
                    /\ {d_out_ids[k] : k \in DOMAIN d_out_ids} = 1..n)
    /\ [][\A g \in DOMAIN laneIdx :
            laneIdx'[g] # laneIdx[g] =>
               /\ laneIdx[g] >= 0
               /\ laneIdx[g] < Len(servers)
               /\ d_counter' = d_counter + 1
               /\ d_out_ids'[d_counter] = laneIdx[g] + 1]_vars

\* 257 servers, one more than the local size: all indices were visited
C18_Witness ==
    /\ Len(servers) = 257
    /\ KernelFinished
    /\ d_counter = 257
    /\ Cardinality({d_out_ids[k] : k \in DOMAIN d_out_ids}) = 257

\* the positions of the received frames of exactly 8 bytes whose bytes 0-3
\* are the id, little endian
ResultFramesFor(id) ==
    {k \in DOMAIN received :
        /\ Len(received[k]) = 8
        /\ Value4(received[k], 0) = id}

\* C19: once the receiver has returned (stop frame or transport error), a
\* record has has_python_result iff an 8-byte frame with its id is among the
\* frames received, and then its stability is the value in bytes 4-7 of the
\* last such frame, whatever that value is.  No frame received is a stop
\* frame except the last.
C19_FlagIffFrameReceived ==
    receiverpc \in {"done", "failed"} =>
        /\ \A id \in DOMAIN results :
              /\ results[id].has_python_result <=> ResultFramesFor(id) # {}
              /\ ResultFramesFor(id) # {} =>
                    LET last == CHOOSE k \in ResultFramesFor(id) :
                                    \A l \in ResultFramesFor(id) : l <= k
                    IN  results[id].stability = Value4(received[last], 4)
        /\ \A k \in DOMAIN received :
              received[k] = << 255 >> => k = Len(received)

\* the receiver is done and record 1 has the flag from a frame whose
\* stability is 25.0f, below 50.0f
C19_Witness ==
    /\ receiverpc = "done"
    /\ 1 \in DOMAIN results
    /\ results[1].has_python_result
    /\ results[1].stability = 1103626240
    /\ received = << << 1, 0, 0, 0, 0, 0, 200, 65 >>, << 255 >> >>

\* the receiver failed before any frame: no record has the flag
C19_WitnessFailed ==
    /\ receiverpc = "failed"
    /\ received = << >>
    /\ inbox # << >>
    /\ Len(inbox[1]) = 8
    /\ 1 \in DOMAIN results
    /\ mainpc = "exit"

\* the fields of a record that load_data copies from the input
InputFields(r) == << r.id, r.location, r.uptime, r.load >>

\* C20: after load_data no step changes the input list, the keys of the
\* store, or the id, location, uptime and load of a record.  A step that
\* changes reliability or has_opencl_result of a record is an iteration of
\* the accelerator's update loop on that record's id and changes nothing
\* else in the store; a step that changes stability or has_python_result of
\* a record is the receiver's update for a frame with that record's id and
\* changes nothing else in the store; a step of the sender changes nothing
\* in the store.
C20_OwnFieldsOnly ==
    [][mainpc # "idle" =>
         /\ servers' = servers
         /\ DOMAIN results' = DOMAIN results
         /\ \A id \in DOMAIN results :
               LET old == results[id]
                   new == results'[id]
                   accChanged == new.reliability # old.reliability
                                 \/ new.has_opencl_result # old.has_opencl_result
                   extChanged == new.stability # old.stability
                                 \/ new.has_python_result # old.has_python_result
               IN  /\ InputFields(new) = InputFields(old)
                   /\ accChanged =>
                         /\ openclpc = "apply"
                         /\ applyI' = applyI + 1
                         /\ h_out_ids[applyI] = id
                         /\ ~extChanged
                         /\ \A other \in DOMAIN results \ {id} :
                               results'[other] = results[other]
                   /\ extChanged =>
                         /\ receiverpc = "update"
                         /\ Value4(msg, 0) = id
                         /\ ~accChanged
                         /\ \A other \in DOMAIN results \ {id} :
                               results'[other] = results[other]
         /\ (senderpc' # senderpc \/ outWire' # outWire \/ sendIdx' # sendIdx) =>
               results' = results]_vars

\* both writers have updated record 1, record 2 is as loaded, the sender is
\* done
C20_Witness ==
    /\ servers = << ServerA, ServerB >>
    /\ results[1].has_opencl_result
    /\ results[1].has_python_result
    /\ InputFields(results[1]) = << 1, "Vilnius", 0, 1048576000 >>
    /\ results[2] = NewResult(ServerB)
    /\ senderpc = "done"
    /\ openclpc = "done"

\* C21: a sender that has failed has sent the 12-byte frames of the first
\* sendIdx servers, in input order, one per position, and nothing else: no
\* stop frame and no frame beyond position sendIdx; after the failure it
\* sends nothing more and stays failed.
C21_SenderStopsOnError ==
    /\ [](senderpc = "failed" =>
             /\ Len(outWire) = sendIdx
             /\ Len(outWire) <= Len(servers)
             /\ \A k \in DOMAIN outWire :
                   /\ Len(outWire[k]) = 12
                   /\ outWire[k] = Bytes4(servers[k].id) \o Bytes4(servers[k].load)
                                      \o Bytes4(servers[k].uptime)
                   /\ outWire[k] # << 255 >>)
    /\ [][senderpc = "failed" =>
            /\ senderpc' = "failed"
            /\ outWire' = outWire
            /\ sendIdx' = sendIdx]_vars

\* the sender failed while sending the second of two frames, and the
\* program has ended with only the first frame sent
C21_Witness ==
    /\ senderpc = "failed"
    /\ Len(servers) = 2
    /\ Len(outWire) = 1
    /\ outWire[1] = << 1, 0, 0, 0, 0, 0, 128, 62, 0, 0, 0, 0 >>
    /\ mainpc = "exit"

\* the sender failed in connect: nothing was sent
C21_WitnessConnect ==
    /\ senderpc = "failed"
    /\ outWire = << >>
    /\ sendIdx = 0
    /\ receiverpc = "done"

\* C22: the mutex is held by the receiver exactly while it is in its locked
\* update and by the accelerator worker exactly while it is in its update
\* loop, so never during a recv; the mutex is only ever taken when it is
\* free and only ever handed back to free; under fair scheduling a held
\* mutex is released, and a worker waiting at its scoped_lock obtains the
\* mutex, whatever the pool sends or fails to send.
C22_LockNeverBlocks ==
    /\ [](/\ results_mutex = "receiver" <=> receiverpc = "update"
          /\ results_mutex = "opencl" <=> openclpc = "apply"
          /\ results_mutex \in {"free", "receiver", "opencl"})
    /\ [][results_mutex' # results_mutex =>
             (results_mutex = "free" \/ results_mutex' = "free")]_vars
    /\ (results_mutex # "free") ~> (results_mutex = "free")
    /\ (openclpc = "lock") ~> (openclpc = "apply")
    /\ (receiverpc = "lock") ~> (receiverpc = "update")

\* the accelerator worker waits at its scoped_lock while the receiver holds
\* the mutex, and no further frame is queued
C22_Witness ==
    /\ openclpc = "lock"
    /\ results_mutex = "receiver"
    /\ inbox = << >>

\* the accelerator worker holds the mutex while the receiver is blocked in
\* recv and the pool has sent nothing
C22_WitnessBlockedRecv ==
    /\ openclpc = "apply"
    /\ results_mutex = "opencl"
    /\ receiverpc = "recv"
    /\ inbox = << >>
    /\ poolSent = 0

\* the ids of the records the kernel compacts, and those with the flag
CompactedIds == {servers[i + 1].id : i \in PassingIdx}
FlaggedIds == {id \in DOMAIN results : results[id].has_opencl_result}

\* C23: whenever the mutex is not held by the accelerator worker, either no
\* record has has_opencl_result or every compacted record has it; and no
\* step taken while the accelerator worker is inside its update loop changes
\* a stability or a has_python_result.
C23_BatchInOneSection ==
    /\ [](results_mutex # "opencl" =>
             (FlaggedIds = {} \/ FlaggedIds = CompactedIds))
    /\ [][openclpc = "apply" =>
             \A id \in DOMAIN results :
                /\ results'[id].stability = results[id].stability
                /\ results'[id].has_python_result = results[id].has_python_result]_vars

\* the accelerator worker has applied one of its two results while the
\* receiver waits at its scoped_lock with a frame for record 1
C23_Witness ==
    /\ openclpc = "apply"
    /\ result_count = 2
    /\ applyI = 1
    /\ Cardinality(FlaggedIds) = 1
    /\ receiverpc = "lock"
    /\ Len(msg) = 8

\* C24: in every state a record without has_opencl_result has reliability
\* 0.0f, a record without has_python_result has stability 0.0f, and a record
\* with has_opencl_result has a reliability from 50.0f up to +infinity; a
\* step that changes a reliability is taken with the mutex held by the
\* accelerator worker and leaves has_opencl_result set, and a step that
\* changes a stability is taken with the mutex held by the receiver and
\* leaves has_python_result set.
C24_ScoreImpliesFlag ==
    /\ [](\A id \in DOMAIN results :
             /\ ~results[id].has_opencl_result => results[id].reliability = 0
             /\ ~results[id].has_python_result => results[id].stability = 0
             /\ results[id].has_opencl_result =>
                   (results[id].reliability >= 1112014848
                    /\ results[id].reliability <= 2139095040))
    /\ [][mainpc # "idle" =>
            \A id \in DOMAIN results :
               /\ results'[id].reliability # results[id].reliability =>
                     (results_mutex = "opencl" /\ results'[id].has_opencl_result)
               /\ results'[id].stability # results[id].stability =>
                     (results_mutex = "receiver" /\ results'[id].has_python_result)]_vars

\* record 1 carries exactly 50.0f with its flag and 25.0f with the receiver's
\* flag; record 2, below the threshold and without a frame, is as loaded
C24_Witness ==
    /\ servers = << ServerA, ServerB >>
    /\ results[1].has_opencl_result /\ results[1].reliability = 1112014848
    /\ results[1].has_python_result /\ results[1].stability = 1103626240
    /\ ~results[2].has_opencl_result /\ results[2].reliability = 0
    /\ ~results[2].has_python_result /\ results[2].stability = 0
    /\ mainpc = "joined"

====
